---- MODULE Spec2Model ----
(***************************************************************************)
(* Game tree with minimax and alpha-beta pruning                           *)
(* (src/arboles_cast_enunciado.py).                                        *)
(*                                                                         *)
(* The module script builds a complete tree (crear_arbol), deep-copies it, *)
(* runs alfa_beta on the tree and alfa_beta_reverso on the copy.  The two  *)
(* recursive functions are modelled with an explicit call stack (pila):    *)
(* one step pushes the frame of a recursive call, one step returns from    *)
(* the top frame and runs the caller's loop body that follows the call     *)
(* (running value, alfa/beta update, cutoff test, marca_podado, break).    *)
(***************************************************************************)
EXTENDS Integers, Sequences, FiniteSets, TLC

\* ------------------------------------------------------------------ bounds
MaxBranch == 3      \* factor_ramificacion ranges over 1..MaxBranch
MaxDepth == 3       \* profundidad ranges over 0..MaxDepth
MaxNodos == 15      \* only trees with at most MaxNodos nodes are generated
MaxVal == 1         \* leaf values range over 0..MaxVal

\* float('inf'): strictly above every leaf value; -Inf is strictly below.
Inf == MaxVal + 1

\* valor=None of Nodo.__init__; a present value v is held as <<v>>.
None == <<>>

Valores == 0..MaxVal

\* Python's builtin max and min on two numbers.
Max(a, b) == IF a >= b THEN a ELSE b

Min(a, b) == IF a <= b THEN a ELSE b

RECURSIVE Pot(_, _)
Pot(b, e) == IF e = 0 THEN 1 ELSE b * Pot(b, e - 1)

\* Number of nodes crear_arbol(b, d) creates.
RECURSIVE Tam(_, _)
Tam(b, d) == IF d = 0 THEN 1 ELSE 1 + b * Tam(b, d - 1)

\* reversed(seq)
reversed(s) == [i \in 1..Len(s) |-> s[Len(s) + 1 - i]]

\* ------------------------------------------------------------------- Nodo
Nodo(identificador, valor, es_max) ==
    [id |-> identificador, valor |-> valor, hijos |-> <<>>,
     es_max |-> es_max, podado |-> FALSE]

es_hoja(nodo) == Len(nodo.hijos) = 0

anadir_hijo(nodo, hijo) == [nodo EXCEPT !.hijos = Append(@, hijo)]

\* ------------------------------------------------------------ crear_arbol
\* Generation state: nodos (the objects created so far, keyed by the order
\* of creation), contador_id, and azar, the values random.uniform is still
\* going to return, in order.
RECURSIVE generar_subarbol(_, _, _, _, _)
RECURSIVE generar_hijos(_, _, _, _, _, _)

generar_subarbol(b, profundidad, prof_actual, es_max, st) ==
    LET identificador_actual == st.contador_id
        nodo == Nodo(identificador_actual, None, es_max)
        st1 == [st EXCEPT !.contador_id = @ + 1,
                          !.nodos = @ @@ (identificador_actual :> nodo)]
    IN  IF prof_actual >= profundidad
        THEN [st1 EXCEPT !.nodos[identificador_actual].valor = <<Head(st.azar)>>,
                         !.azar = Tail(@)]
        ELSE generar_hijos(b, profundidad, prof_actual, identificador_actual, b, st1)

\* for _ in range(factor_ramificacion): the remaining `quedan` iterations.
generar_hijos(b, profundidad, prof_actual, padre, quedan, st) ==
    IF quedan = 0 THEN st
    ELSE LET hijo == st.contador_id
             st1 == generar_subarbol(b, profundidad, prof_actual + 1,
                                     ~st.nodos[padre].es_max, st)
             st2 == [st1 EXCEPT !.nodos[padre] = anadir_hijo(@, hijo)]
         IN  generar_hijos(b, profundidad, prof_actual, padre, quedan - 1, st2)

crear_arbol(factor_ramificacion, profundidad, azar, raiz_es_max) ==
    generar_subarbol(factor_ramificacion, profundidad, 0, raiz_es_max,
                     [nodos |-> <<>>, contador_id |-> 0, azar |-> azar]).nodos

\* copy.deepcopy(arbol): a structurally identical, separately owned tree.
deepcopy(t) == [n \in DOMAIN t |-> t[n]]

\* The root is the first node created.
Raiz == 0

\* ----------------------------------------------------------- marca_podado
RECURSIVE marca_podado(_, _)
RECURSIVE marca_hijos(_, _)

\* nodo.podado = True only, without touching the children (used as a
\* defective variant of marca_podado).
marca_podado_sin_hijos(t, n) == [t EXCEPT ![n].podado = TRUE]

\* Defective variant: also drops the value of the marked node.
RECURSIVE marca_podado_borra_valor(_, _)
marca_podado_borra_valor(t, n) ==
    LET t1 == [t EXCEPT ![n].podado = TRUE, ![n].valor = None]
    IN  IF ~es_hoja(t1[n]) THEN marca_hijos(t1, t1[n].hijos) ELSE t1

marca_podado(t, n) ==
    LET t1 == [t EXCEPT ![n].podado = TRUE]
    IN  IF ~es_hoja(t1[n]) THEN marca_hijos(t1, t1[n].hijos) ELSE t1

\* for hijo in <seq>: marca_podado(hijo)
marca_hijos(t, s) ==
    IF s = <<>> THEN t ELSE marca_hijos(marca_podado(t, Head(s)), Tail(s))

\* nodo.hijos.index(hijo), 0-based as in Python.
index(hijos, hijo) == (CHOOSE i \in 1..Len(hijos) : hijos[i] = hijo) - 1

\* Defective variant: hijos[index(hijo):], which includes the cutting child.
hijos_restantes_desde(hijos, hijo) == SubSeq(hijos, index(hijos, hijo) + 1, Len(hijos))

\* nodo.hijos[nodo.hijos.index(hijo) + 1:]
hijos_restantes(hijos, hijo) == SubSeq(hijos, index(hijos, hijo) + 2, Len(hijos))

\* ------------------------------------------------- alfa_beta, one frame
\* Defective variant of the cutoff test: strict comparison.
poda_estricta(alfa, beta) == alfa > beta

\* if alfa >= beta
poda(alfa, beta) == alfa >= beta

\* Defective variant: the running value starts from the stored value.
valor_inicial_acumulado(nodo) ==
    IF nodo.valor # None THEN nodo.valor[1]
    ELSE IF nodo.es_max THEN -Inf ELSE Inf

\* Defective variant: the MIN branch starts from -inf like the MAX branch.
valor_inicial_copiado(nodo) == -Inf

\* valor = -float('inf') at a MAX node, valor = float('inf') at a MIN node.
valor_inicial(nodo) == IF nodo.es_max THEN -Inf ELSE Inf

\* Defective variant: the MIN branch keeps the larger value.
combina_max_siempre(nodo, valor, v) == Max(valor, v)

\* valor = max(valor, ...) at a MAX node, valor = min(valor, ...) at a MIN node.
combina(nodo, valor, v) == IF nodo.es_max THEN Max(valor, v) ELSE Min(valor, v)

\* The frame of a call alfa_beta(nodo, alfa, beta) at its entry: k children
\* consumed by the for loop so far, corte = the loop was left by break.
\* alfa0/beta0 remember the arguments of the call (alfa and beta themselves
\* are reassigned in the loop).
Marco(t, n, alfa, beta) ==
    [nodo |-> n, alfa |-> alfa, beta |-> beta, alfa0 |-> alfa, beta0 |-> beta,
     valor |-> valor_inicial(t[n]), k |-> 0, corte |-> FALSE]

\* Children in the order alfa_beta iterates them.
recorrido_directo(hijos) == hijos

\* Defective variant: a reverse iteration that stops before the first child.
recorrido_reverso_sin_primero(hijos) ==
    IF Len(hijos) > 1 THEN SubSeq(reversed(hijos), 1, Len(hijos) - 1)
    ELSE reversed(hijos)

\* Children in the order alfa_beta_reverso iterates them.
recorrido_reverso(hijos) == reversed(hijos)

\* Defective variant: the for loop is thought finished one iteration late.
bucle_agotado_tarde(rec, f) == f.k > Len(rec)

\* The for loop has no child left.
bucle_agotado(rec, f) == f.k >= Len(rec)

\* The for loop of frame f goes on to its next child: the call is made.
en_llamada(t, rec, f) == ~es_hoja(t[f.nodo]) /\ ~f.corte /\ f.k < Len(rec)

\* The call of frame f is at a return statement: a leaf, or a loop that is
\* exhausted or was left by break.
en_retorno(t, rec, f) == es_hoja(t[f.nodo]) \/ f.corte \/ bucle_agotado(rec, f)

\* The value the call of frame f returns.
valor_retorno(t, f) == IF es_hoja(t[f.nodo]) THEN t[f.nodo].valor[1] ELSE f.valor

\* The caller's loop body after the call on `hijo` returned v.
tras_hijo(t, f, hijo, v) ==
    LET nodo == t[f.nodo]
        valor == combina(nodo, f.valor, v)
        alfa == IF nodo.es_max THEN Max(f.alfa, valor) ELSE f.alfa
        beta == IF nodo.es_max THEN f.beta ELSE Min(f.beta, valor)
    IN  [f EXCEPT !.valor = valor, !.alfa = alfa, !.beta = beta,
                  !.k = @ + 1, !.corte = poda(alfa, beta)]

\* The tree after the return from the top frame f into its caller (if any):
\* nodo.valor = valor of the returning internal node, then the marking of the
\* caller's remaining children when the caller cuts off.
arbol_tras_retorno(t, p, f) ==
    LET t1 == IF es_hoja(t[f.nodo]) THEN t
              ELSE [t EXCEPT ![f.nodo].valor = <<f.valor>>]
    IN  IF Len(p) = 1 THEN t1
        ELSE LET padre == p[Len(p) - 1]
                 g == tras_hijo(t1, padre, f.nodo, valor_retorno(t, f))
             IN  IF g.corte
                 THEN marca_hijos(t1, hijos_restantes(t1[padre.nodo].hijos, f.nodo))
                 ELSE t1

pila_tras_retorno(t, p, f) ==
    IF Len(p) = 1 THEN <<>>
    ELSE LET padre == p[Len(p) - 1]
         IN  SubSeq(p, 1, Len(p) - 2)
             \o <<tras_hijo(t, padre, f.nodo, valor_retorno(t, f))>>

\* ------------------------------------------------------------------ state
VARIABLES
    arbol,              \* the tree alfa_beta evaluates: id -> Nodo
    arbol_reverso,      \* its deep copy, evaluated by alfa_beta_reverso
    pila,               \* call stack of the running evaluation (top = last)
    pc,                 \* position of the module script
    resultado,          \* None until alfa_beta(arbol) returned
    resultado_reverso,  \* None until alfa_beta_reverso(arbol_reverso) returned
    llamadas,           \* history: node -> <<alfa, beta>> of the call made on it (arbol)
    llamadas_reverso,   \* the same for arbol_reverso
    previo              \* history: trees and results when a repeated run started

vars == <<arbol, arbol_reverso, pila, pc, resultado, resultado_reverso,
          llamadas, llamadas_reverso, previo>>

Cima == pila[Len(pila)]

\* Module script, lines 229-235: the tree and its deep copy.
Init ==
    /\ \E b \in 1..MaxBranch, d \in 0..MaxDepth :
          /\ Tam(b, d) <= MaxNodos
          /\ \E azar \in [1..Pot(b, d) -> Valores], raiz_es_max \in BOOLEAN :
                arbol = crear_arbol(b, d, azar, raiz_es_max)
    /\ arbol_reverso = deepcopy(arbol)
    /\ pila = <<>>
    /\ pc = "main_239"
    /\ resultado = None
    /\ resultado_reverso = None
    /\ llamadas = <<>>
    /\ llamadas_reverso = <<>>
    /\ previo = <<>>

\* resultado = alfa_beta(arbol): the call is entered.
main_239 ==
    /\ pc = "main_239"
    /\ pila' = <<Marco(arbol, Raiz, -Inf, Inf)>>
    /\ llamadas' = (Raiz :> <<-Inf, Inf>>) @@ llamadas
    /\ pc' = "alfa_beta"
    /\ UNCHANGED <<arbol, arbol_reverso, resultado, resultado_reverso,
                   llamadas_reverso, previo>>

\* alfa_beta: the recursive call on the next child of the for loop.
alfa_beta_llamada ==
    /\ pc \in {"alfa_beta", "rep_alfa_beta"}
    /\ LET f == Cima
           rec == recorrido_directo(arbol[f.nodo].hijos)
       IN  /\ en_llamada(arbol, rec, f)
           /\ pila' = Append(pila, Marco(arbol, rec[f.k + 1], f.alfa, f.beta))
           /\ llamadas' = (rec[f.k + 1] :> <<f.alfa, f.beta>>) @@ llamadas
    /\ UNCHANGED <<arbol, arbol_reverso, pc, resultado, resultado_reverso,
                   llamadas_reverso, previo>>

\* alfa_beta: return from the top call, and the caller's loop body after it.
alfa_beta_retorno ==
    /\ pc \in {"alfa_beta", "rep_alfa_beta"}
    /\ LET f == Cima
           rec == recorrido_directo(arbol[f.nodo].hijos)
       IN  /\ en_retorno(arbol, rec, f)
           /\ arbol' = arbol_tras_retorno(arbol, pila, f)
           /\ pila' = pila_tras_retorno(arbol, pila, f)
           /\ IF Len(pila) = 1
              THEN /\ resultado' = <<valor_retorno(arbol, f)>>
                   /\ pc' = IF pc = "alfa_beta" THEN "main_245" ELSE "fin_rep"
              ELSE UNCHANGED <<resultado, pc>>
    /\ UNCHANGED <<arbol_reverso, resultado_reverso, llamadas, llamadas_reverso,
                   previo>>

\* resultado_reverso = alfa_beta_reverso(arbol_reverso): the call is entered.
main_245 ==
    /\ pc = "main_245"
    /\ pila' = <<Marco(arbol_reverso, Raiz, -Inf, Inf)>>
    /\ llamadas_reverso' = (Raiz :> <<-Inf, Inf>>) @@ llamadas_reverso
    /\ pc' = "alfa_beta_reverso"
    /\ UNCHANGED <<arbol, arbol_reverso, resultado, resultado_reverso,
                   llamadas, previo>>

alfa_beta_reverso_llamada ==
    /\ pc \in {"alfa_beta_reverso", "rep_alfa_beta_reverso"}
    /\ LET f == Cima
           rec == recorrido_reverso(arbol_reverso[f.nodo].hijos)
       IN  /\ en_llamada(arbol_reverso, rec, f)
           /\ pila' = Append(pila, Marco(arbol_reverso, rec[f.k + 1], f.alfa, f.beta))
           /\ llamadas_reverso' = (rec[f.k + 1] :> <<f.alfa, f.beta>>) @@ llamadas_reverso
    /\ UNCHANGED <<arbol, arbol_reverso, pc, resultado, resultado_reverso,
                   llamadas, previo>>

alfa_beta_reverso_retorno ==
    /\ pc \in {"alfa_beta_reverso", "rep_alfa_beta_reverso"}
    /\ LET f == Cima
           rec == recorrido_reverso(arbol_reverso[f.nodo].hijos)
       IN  /\ en_retorno(arbol_reverso, rec, f)
           /\ arbol_reverso' = arbol_tras_retorno(arbol_reverso, pila, f)
           /\ pila' = pila_tras_retorno(arbol_reverso, pila, f)
           /\ IF Len(pila) = 1
              THEN /\ resultado_reverso' = <<valor_retorno(arbol_reverso, f)>>
                   /\ pc' = IF pc = "alfa_beta_reverso" THEN "fin" ELSE "fin_rep"
              ELSE UNCHANGED <<resultado_reverso, pc>>
    /\ UNCHANGED <<arbol, resultado, llamadas, llamadas_reverso, previo>>

Next ==
    \/ main_239
    \/ alfa_beta_llamada
    \/ alfa_beta_retorno
    \/ main_245
    \/ alfa_beta_reverso_llamada
    \/ alfa_beta_reverso_retorno

Spec == Init /\ [][Next]_vars

\* The script is single-threaded and runs every statement to its end.
SpecJusto == Spec /\ WF_vars(Next)

\* A second call of the same function on the tree it already evaluated,
\* with the default alfa and beta again.
Instantanea ==
    [arbol |-> arbol, arbol_reverso |-> arbol_reverso,
     resultado |-> resultado, resultado_reverso |-> resultado_reverso]

repetir_alfa_beta ==
    /\ pc = "fin"
    /\ previo' = Instantanea
    /\ pila' = <<Marco(arbol, Raiz, -Inf, Inf)>>
    /\ llamadas' = (Raiz :> <<-Inf, Inf>>) @@ llamadas
    /\ pc' = "rep_alfa_beta"
    /\ UNCHANGED <<arbol, arbol_reverso, resultado, resultado_reverso,
                   llamadas_reverso>>

repetir_alfa_beta_reverso ==
    /\ pc = "fin"
    /\ previo' = Instantanea
    /\ pila' = <<Marco(arbol_reverso, Raiz, -Inf, Inf)>>
    /\ llamadas_reverso' = (Raiz :> <<-Inf, Inf>>) @@ llamadas_reverso
    /\ pc' = "rep_alfa_beta_reverso"
    /\ UNCHANGED <<arbol, arbol_reverso, resultado, resultado_reverso,
                   llamadas>>

NextRepetir ==
    \/ main_239
    \/ alfa_beta_llamada
    \/ alfa_beta_retorno
    \/ main_245
    \/ alfa_beta_reverso_llamada
    \/ alfa_beta_reverso_retorno
    \/ repetir_alfa_beta
    \/ repetir_alfa_beta_reverso

SpecRepetir == Init /\ [][NextRepetir]_vars

\* ------------------------------------------------------------- properties
Nodos == DOMAIN arbol

Hijos(t, n) == {t[n].hijos[j] : j \in 1..Len(t[n].hijos)}

Podados(t) == {n \in DOMAIN t : t[n].podado}

\* Minimax value: full recursive min/max evaluation, no pruning.
RECURSIVE Minimax(_, _)
Minimax(t, n) ==
    IF es_hoja(t[n]) THEN t[n].valor[1]
    ELSE LET S == {Minimax(t, h) : h \in Hijos(t, n)}
         IN  IF t[n].es_max THEN CHOOSE x \in S : \A y \in S : x >= y
             ELSE CHOOSE x \in S : \A y \in S : x <= y

\* A pruned node's children are pruned (hence all its descendants).
PodaCerrada(t) == \A n \in DOMAIN t : t[n].podado => Hijos(t, n) \subseteq Podados(t)

\* C1: the value alfa_beta(root) returns with alfa = -inf, beta = +inf is the
\* minimax value of the root.
C1_RaizMinimax == resultado # None => resultado[1] = Minimax(arbol, Raiz)

C1_Testigo ==
    /\ pc = "main_245"
    /\ Podados(arbol) # {}
    /\ resultado = <<Minimax(arbol, Raiz)>>

\* C2: alfa_beta_reverso on the copy returns the same root value as alfa_beta
\* on the tree, also when the two prune different nodes.
C2_MismoValor == resultado_reverso # None => resultado_reverso = resultado

C2_Testigo ==
    /\ pc = "fin"
    /\ Podados(arbol) # Podados(arbol_reverso)
    /\ resultado_reverso = resultado

\* C3: after alfa_beta on a fresh tree, a node is pruned if and only if no
\* call of alfa_beta was made on it.
C3_PodadoSiiNoVisitado ==
    resultado # None => \A n \in Nodos : arbol[n].podado <=> n \notin DOMAIN llamadas

C3_Testigo ==
    /\ resultado # None
    /\ \E n \in Nodos : arbol[n].podado /\ n \notin DOMAIN llamadas
    /\ \E n \in Nodos : ~es_hoja(arbol[n]) /\ Hijos(arbol, n) \cap DOMAIN llamadas # {}
                        /\ Hijos(arbol, n) \cap Podados(arbol) # {}

\* C4: in alfa_beta_reverso, at a node that cut off, the children marked
\* pruned are exactly the children no call was made on.
C4_PodaReversaNoVisitados ==
    pc = "alfa_beta_reverso" =>
        \A i \in 1..Len(pila) :
            pila[i].corte =>
                \A h \in Hijos(arbol_reverso, pila[i].nodo) :
                    arbol_reverso[h].podado <=> h \notin DOMAIN llamadas_reverso

\* C5: after a completed evaluation every descendant of a pruned node is
\* pruned, and no step resets a pruned flag.
C5_PodaPropagada ==
    /\ [](pila = <<>> => PodaCerrada(arbol) /\ PodaCerrada(arbol_reverso))
    /\ [][\A n \in Nodos : /\ arbol[n].podado => arbol'[n].podado
                           /\ arbol_reverso[n].podado => arbol_reverso'[n].podado]_vars

C5_Testigo ==
    /\ pila = <<>>
    /\ \E n \in Podados(arbol) \cup Podados(arbol_reverso) : ~es_hoja(arbol[n])

Intacto(t, u) ==
    \A n \in DOMAIN t :
        /\ u[n].id = t[n].id
        /\ u[n].es_max = t[n].es_max
        /\ u[n].hijos = t[n].hijos
        /\ es_hoja(t[n]) => u[n].valor = t[n].valor

C7_SoloValorYPodado ==
    [][DOMAIN arbol' = DOMAIN arbol /\ DOMAIN arbol_reverso' = DOMAIN arbol_reverso
       /\ Intacto(arbol, arbol') /\ Intacto(arbol_reverso, arbol_reverso')]_vars

C7_Testigo ==
    /\ pc = "fin"
    /\ \E n \in Podados(arbol_reverso) : es_hoja(arbol_reverso[n])
    /\ \E n \in Podados(arbol) : es_hoja(arbol[n])
    /\ \E n \in Nodos : ~es_hoja(arbol_reverso[n]) /\ arbol_reverso[n].valor # None
                        /\ Len(arbol_reverso[n].hijos) > 1

\* C8: a second run of the same function on the evaluated tree returns the
\* same value and leaves every value and pruned flag as the first run left it.
C8_Idempotente ==
    pc = "fin_rep" =>
        /\ arbol = previo.arbol
        /\ arbol_reverso = previo.arbol_reverso
        /\ resultado = previo.resultado
        /\ resultado_reverso = previo.resultado_reverso

C8_Testigo ==
    /\ pc = "fin_rep"
    /\ Podados(arbol) # {}
    /\ Podados(arbol_reverso) # {}
    /\ arbol = previo.arbol

\* C9: the evaluations terminate: every call that was entered returns and
\* the script reaches its end.
C9_Termina ==
    /\ <>(pc = "fin")
    /\ (pila # <<>>) ~> (pila = <<>>)

C9_Testigo == pc = "fin" /\ pila = <<>> /\ resultado # None /\ resultado_reverso # None

\* C10: when alfa equals beta after a child was visited, the loop stops at
\* that child: the frame is left by break and its next step is its return,
\* never another call.
C10_CorteConIgualdad ==
    [][\A i \in 1..Len(pila) :
          (pila[i].k >= 1 /\ pila[i].alfa = pila[i].beta) =>
              /\ pila[i].corte
              /\ i = Len(pila)
              /\ Len(pila') < Len(pila)]_vars

C10_Testigo ==
    /\ pila # <<>>
    /\ Cima.k >= 1
    /\ Cima.alfa = Cima.beta
    /\ Cima.corte
    /\ Cima.k < Len(arbol[Cima.nodo].hijos)

====
